---------------------------- MODULE Spec2Model ----------------------------
(***************************************************************************)
(* A model of succinct-rs: the bit-packed integer vector IntVec            *)
(* (src/src/int_vec/mod.rs), its iterator, and the two-level rank index    *)
(* RankSupport (src/src/rank.rs).                                          *)
(*                                                                         *)
(* Words are natural numbers below 2^block_bits.  The widths of the        *)
(* machine types are scaled down so that the state space is finite and     *)
(* small: BlockBits stands for Block::nbits() of the user-facing vector,   *)
(* U64Bits for the width of u64 (and of a 64-bit usize).  Every formula    *)
(* below is stated in terms of these widths, never of their values.        *)
(***************************************************************************)
EXTENDS Integers, Sequences, FiniteSets, TLC

VARIABLES
    debug,      \* cfg(debug_assertions): debug_assert! is compiled in
    lsb0,       \* bit numbering of the word layer: TRUE when bit 0 is the least significant
    vec,        \* the IntVec under test
    model,      \* ghost: the last value set at each index, <<>> once raw bits were written
    last,       \* the last call on vec and its outcome
    iter,       \* the live Iter over vec, if any, with the ghost log of what it yielded
    ctor,       \* IntVec::new: the arguments, the platform and the outcome
    bits,       \* the bit source RankSupport borrows
    rank        \* the RankSupport built over bits, and the last rank query

vars == <<debug, lsb0, vec, model, last, iter, ctor, bits, rank>>

---------------------------------------------------------------------------
(* Bounds of the model.                                                    *)

\* Block::nbits() of the vector under test (u8/u16/u32/u64 scaled down).
BlockBits == 4
\* The width of u64, scaled down; IntVec<u64> holds the rank tables.
U64Bits == 8
\* The most elements, and the most payload bits, of a vector under test.
MaxN == 3
MaxBits == 9
\* The most storage words of a bit source.
MaxWords == 10

Pow2(e) == 2 ^ e

Min(a, b) == IF a <= b THEN a ELSE b

---------------------------------------------------------------------------
(* The word capability layer (block_type, spec 4.1).  The spec fixes that  *)
(* get/set pairs agree on the numbering of bits and leaves the numbering   *)
(* itself to the implementation: both numberings are modelled (lsb0).      *)

\* How far the field of len bits at offset start sits above bit 0 of the word.
FieldShift(bb, start, len) == IF lsb0 THEN start ELSE bb - start - len

\* get_bits(word, offset, len): the len bits at offset, as a number.
get_bits(bb, w, start, len) ==
    (w \div Pow2(FieldShift(bb, start, len))) % Pow2(len)

\* set_bits(word, offset, len, value): exactly those len bits replaced by
\* the low len bits of value, the rest preserved.
set_bits(bb, w, start, len, value) ==
    LET sh == Pow2(FieldShift(bb, start, len))
    IN  w - get_bits(bb, w, start, len) * sh + (value % Pow2(len)) * sh

get_bit(bb, w, i) == get_bits(bb, w, i, 1) = 1

set_bit(bb, w, i, b) == set_bits(bb, w, i, 1, IF b THEN 1 ELSE 0)

RECURSIVE count_ones(_)
count_ones(w) == IF w = 0 THEN 0 ELSE (w % 2) + count_ones(w \div 2)

---------------------------------------------------------------------------
(* IntVec.  A vector is [block_bits, blocks, n_elements, element_bits];    *)
(* block_bits is the type parameter Block.  Rust indexes from 0, a TLA+    *)
(* sequence from 1: blocks[j] of the code is v.blocks[j + 1].  A call that *)
(* panics yields fault = TRUE and no other effect.                         *)

block_bits(v) == v.block_bits

element_bits(v) == v.element_bits

is_packed(v) == element_bits(v) = block_bits(v)

is_aligned(v) == block_bits(v) % element_bits(v) = 0

len(v) == v.n_elements

is_empty(v) == len(v) = 0

\* Slice indexing self.blocks[j]: panics when j is not below the length.
InBlocks(v, j) == j >= 0 /\ j < Len(v.blocks)

Block(v, j) == v.blocks[j + 1]

WithBlock(v, j, w) == [v EXCEPT !.blocks[j + 1] = w]

\* element_address past its assert.
element_address(v, element_index) ==
    IF is_packed(v)
    THEN [block_index |-> element_index, bit_offset |-> 0]
    ELSE LET bit_index == element_index * element_bits(v)
         IN  [block_index |-> bit_index \div block_bits(v),
              bit_offset  |-> bit_index % block_bits(v)]

bit_address(v, bit_index) ==
    [block_index |-> bit_index \div block_bits(v),
     bit_offset  |-> bit_index % block_bits(v)]

Fault == [fault |-> TRUE, value |-> 0]

Value(x) == [fault |-> FALSE, value |-> x]

IntVecGetBit(v, bit_index) ==
    LET a == bit_address(v, bit_index)
    IN  IF ~InBlocks(v, a.block_index) THEN Fault
        ELSE Value(IF get_bit(block_bits(v), Block(v, a.block_index), a.bit_offset)
                   THEN 1 ELSE 0)

IntVecSetBit(v, bit_index, bit_value) ==
    LET a == bit_address(v, bit_index)
    IN  IF ~InBlocks(v, a.block_index) THEN [fault |-> TRUE, vec |-> v]
        ELSE [fault |-> FALSE,
              vec |-> WithBlock(v, a.block_index,
                        set_bit(block_bits(v), Block(v, a.block_index),
                                a.bit_offset, bit_value))]

\* get, the element inside one block (margin >= element_bits).
GetWithin(v, a) ==
    IF InBlocks(v, a.block_index)
    THEN Value(get_bits(block_bits(v), Block(v, a.block_index),
                        a.bit_offset, element_bits(v)))
    ELSE Fault

\* get, the element across two blocks: margin high bits, then extra low bits.
GetStraddling(v, a) ==
    LET bb     == block_bits(v)
        margin == bb - a.bit_offset
        extra  == element_bits(v) - margin
    IN  IF InBlocks(v, a.block_index) /\ InBlocks(v, a.block_index + 1)
        THEN LET high_bits == get_bits(bb, Block(v, a.block_index),
                                       a.bit_offset, margin)
                 low_bits  == get_bits(bb, Block(v, a.block_index + 1), 0, extra)
             IN  Value(((high_bits * Pow2(extra)) % Pow2(bb)) + low_bits)
        ELSE Fault

IntVecGet(v, element_index) ==
    IF is_packed(v)
    THEN IF InBlocks(v, element_index)
         THEN Value(Block(v, element_index)) ELSE Fault
    ELSE IF element_bits(v) = 1
    THEN IntVecGetBit(v, element_index)
    ELSE IF ~(element_index < v.n_elements) THEN Fault     \* element_address
    ELSE LET a      == element_address(v, element_index)
             margin == block_bits(v) - a.bit_offset
         IN  IF margin >= element_bits(v)
             THEN GetWithin(v, a) ELSE GetStraddling(v, a)

\* SetWithin writing up to the end of the block instead of element_bits bits.
SetWithinMutant(v, a, element_value) ==
    IF InBlocks(v, a.block_index)
    THEN [fault |-> FALSE,
          vec |-> WithBlock(v, a.block_index,
                    set_bits(block_bits(v), Block(v, a.block_index), a.bit_offset,
                             block_bits(v) - a.bit_offset, element_value))]
    ELSE [fault |-> TRUE, vec |-> v]

\* set, the element inside one block.
SetWithin(v, a, element_value) ==
    IF InBlocks(v, a.block_index)
    THEN [fault |-> FALSE,
          vec |-> WithBlock(v, a.block_index,
                    set_bits(block_bits(v), Block(v, a.block_index), a.bit_offset,
                             element_bits(v), element_value))]
    ELSE [fault |-> TRUE, vec |-> v]

\* SetStraddling without the shift that selects the high bits.
SetStraddlingMutant(v, a, element_value) ==
    LET bb     == block_bits(v)
        margin == bb - a.bit_offset
        extra  == element_bits(v) - margin
    IN  IF InBlocks(v, a.block_index) /\ InBlocks(v, a.block_index + 1)
        THEN LET high_bits  == element_value
                 new_block1 == set_bits(bb, Block(v, a.block_index),
                                        a.bit_offset, margin, high_bits)
                 new_block2 == set_bits(bb, Block(v, a.block_index + 1),
                                        0, extra, element_value)
             IN  [fault |-> FALSE,
                  vec |-> WithBlock(WithBlock(v, a.block_index, new_block1),
                                    a.block_index + 1, new_block2)]
        ELSE [fault |-> TRUE, vec |-> v]

\* set, the element across two blocks.
SetStraddling(v, a, element_value) ==
    LET bb     == block_bits(v)
        margin == bb - a.bit_offset
        extra  == element_bits(v) - margin
    IN  IF InBlocks(v, a.block_index) /\ InBlocks(v, a.block_index + 1)
        THEN LET high_bits  == element_value \div Pow2(extra)
                 new_block1 == set_bits(bb, Block(v, a.block_index),
                                        a.bit_offset, margin, high_bits)
                 new_block2 == set_bits(bb, Block(v, a.block_index + 1),
                                        0, extra, element_value)
             IN  [fault |-> FALSE,
                  vec |-> WithBlock(WithBlock(v, a.block_index, new_block1),
                                    a.block_index + 1, new_block2)]
        ELSE [fault |-> TRUE, vec |-> v]

IntVecSet(v, element_index, element_value) ==
    LET Panic == [fault |-> TRUE, vec |-> v]
    IN
    IF is_packed(v)
    THEN IF InBlocks(v, element_index)
         THEN [fault |-> FALSE, vec |-> WithBlock(v, element_index, element_value)]
         ELSE Panic
    ELSE IF debug /\ ~(element_value < Pow2(element_bits(v))) THEN Panic
    ELSE IF element_bits(v) = 1
    THEN IntVecSetBit(v, element_index, element_value = 1)
    ELSE IF ~(element_index < v.n_elements) THEN Panic     \* element_address
    ELSE LET a      == element_address(v, element_index)
             margin == block_bits(v) - a.bit_offset
         IN  IF margin >= element_bits(v)
             THEN SetWithin(v, a, element_value)
             ELSE SetStraddling(v, a, element_value)

\* compute_block_size without the rounding up of the last, partial block.
compute_block_size_mutant(bb, usize_bits, k, n) ==
    LET n_bits == n * k
        result == n_bits \div bb
    IN  IF debug /\ ~(bb >= k)
        THEN [panic |-> TRUE, some |-> FALSE, size |-> 0]
        ELSE IF n_bits >= Pow2(U64Bits)
        THEN [panic |-> FALSE, some |-> FALSE, size |-> 0]
        ELSE IF result >= Pow2(usize_bits)
        THEN [panic |-> FALSE, some |-> FALSE, size |-> 0]
        ELSE [panic |-> FALSE, some |-> TRUE, size |-> result]

\* compute_block_size: None is [some |-> FALSE], a failed debug_assert! is
\* panic.  usize_bits is the width of usize on the platform.
compute_block_size(bb, usize_bits, k, n) ==
    LET n_bits == n * k
        result == (n_bits \div bb) + (IF n_bits % bb > 0 THEN 1 ELSE 0)
    IN  IF debug /\ ~(bb >= k)
        THEN [panic |-> TRUE, some |-> FALSE, size |-> 0]
        ELSE IF n_bits >= Pow2(U64Bits)                \* checked_mul
        THEN [panic |-> FALSE, some |-> FALSE, size |-> 0]
        ELSE IF result >= Pow2(usize_bits)             \* to_usize
        THEN [panic |-> FALSE, some |-> FALSE, size |-> 0]
        ELSE [panic |-> FALSE, some |-> TRUE, size |-> result]

\* IntVec::new.  Vec::with_capacity(n_elements) panics (capacity overflow)
\* when n_elements blocks, of one byte or more each, exceed isize::MAX
\* bytes; running out of memory is not modelled.
IntVecNew(bb, usize_bits, k, n) ==
    LET block_size == compute_block_size(bb, usize_bits, k, n)
    IN  IF block_size.panic \/ ~block_size.some        \* expect
           \/ n >= Pow2(usize_bits - 1)                \* with_capacity
        THEN [fault |-> TRUE,
              vec |-> [block_bits |-> bb, blocks |-> <<>>,
                       n_elements |-> 0, element_bits |-> k]]
        ELSE [fault |-> FALSE,
              vec |-> [block_bits |-> bb,
                       blocks |-> [j \in 1 .. block_size.size |-> 0],
                       n_elements |-> n, element_bits |-> k]]

---------------------------------------------------------------------------
(* Values the variables hold while the part they belong to is not in use.  *)

NoVec == [block_bits |-> BlockBits, blocks |-> <<>>, n_elements |-> 0,
          element_bits |-> 1]

NoModel == [raw |-> TRUE, at |-> <<>>]

NoLast == [op |-> "none", index |-> 0, value |-> 0, fault |-> FALSE]

None == [some |-> FALSE, value |-> 0]

Some(x) == [some |-> TRUE, value |-> x]

NoIter == [live |-> FALSE, start |-> 0, limit |-> 0, front |-> <<>>,
           back |-> <<>>, skipped |-> FALSE, last |-> "none", item |-> None,
           fault |-> FALSE]

NoCtor == [usize_bits |-> U64Bits, element_bits |-> 0, n_elements |-> 0,
           done |-> FALSE, fault |-> FALSE]

NoBits == [n |-> 0, blocks |-> <<>>]

NoTable == [block_bits |-> U64Bits, blocks |-> <<>>, n_elements |-> 0,
            element_bits |-> 0]

NoRank == [pc |-> "none", large_block_size |-> 0, small_per_large |-> 0,
           large_block_ranks |-> NoTable, small_block_ranks |-> NoTable,
           current_rank |-> 0, queried |-> FALSE, position |-> 0,
           result |-> 0, fault |-> FALSE]

---------------------------------------------------------------------------
(* Spec: a vector built by IntVec::new(k, n) with 1 <= k <= BlockBits, and *)
(* the calls get, set, get_bit, set_bit on it in any order.                *)

\* The arguments a caller may pass.
Indexes == 0 .. (MaxN + 1)

ValuesOf(v) == 0 .. (Pow2(element_bits(v)) - 1)

\* Bit positions: the first and the last payload bit, the bit after the
\* payload (a padding bit where there is one), and the first position past
\* the storage.
BitIndexes(v) ==
    LET payload == len(v) * element_bits(v)
        storage == Len(v.blocks) * block_bits(v)
    IN  {b \in {0, payload - 1, payload, storage} : b >= 0}

\* The callers of Spec keep set's precondition, value < 2^k, so that its
\* debug_assert! holds and debug and release builds behave alike here.
Init ==
    /\ debug = TRUE
    /\ lsb0 \in BOOLEAN
    /\ \E k \in 1 .. BlockBits, n \in 0 .. MaxN :
          /\ n * k <= MaxBits
          /\ vec = IntVecNew(BlockBits, U64Bits, k, n).vec
          /\ model = [raw |-> FALSE, at |-> [i \in 1 .. n |-> 0]]
          /\ ctor = [usize_bits |-> U64Bits, element_bits |-> k, n_elements |-> n,
                     done |-> TRUE, fault |-> FALSE]
    /\ last = [op |-> "new", index |-> 0, value |-> 0, fault |-> FALSE]
    /\ iter = NoIter
    /\ bits = NoBits
    /\ rank = NoRank

Get(i) ==
    LET r == IntVecGet(vec, i)
    IN  /\ last' = [op |-> "get", index |-> i, value |-> r.value, fault |-> r.fault]
        /\ UNCHANGED <<debug, lsb0, vec, model, iter, ctor, bits, rank>>

Set(i, x) ==
    LET r == IntVecSet(vec, i, x)
    IN  /\ vec' = r.vec
        /\ model' = IF r.fault \/ model.raw \/ i >= len(vec) THEN model
                    ELSE [model EXCEPT !.at[i + 1] = x]
        /\ last' = [op |-> "set", index |-> i, value |-> IF r.fault THEN 0 ELSE x,
                    fault |-> r.fault]
        /\ UNCHANGED <<debug, lsb0, iter, ctor, bits, rank>>

SetBit(b, x) ==
    LET r == IntVecSetBit(vec, b, x = 1)
    IN  /\ vec' = r.vec
        /\ model' = IF r.fault THEN model ELSE [raw |-> TRUE, at |-> <<>>]
        /\ last' = [op |-> "set_bit", index |-> 0, value |-> 0, fault |-> r.fault]
        /\ UNCHANGED <<debug, lsb0, iter, ctor, bits, rank>>

Next ==
    \/ \E i \in Indexes : Get(i)
    \/ \E i \in 0 .. (len(vec) - 1), x \in ValuesOf(vec) : Set(i, x)
    \/ \E i \in Indexes, x \in {0, Pow2(element_bits(vec)) - 1} :
          i >= len(vec) /\ Set(i, x)
    \/ \E b \in BitIndexes(vec), x \in {0, 1} : SetBit(b, x)

Spec == Init /\ [][Next]_vars

---------------------------------------------------------------------------
(* Claims about get and set, checked under Spec.                           *)

\* Element i lies across two storage words.
Straddles(v, i) ==
    /\ ~is_packed(v)
    /\ element_address(v, i).bit_offset + element_bits(v) > block_bits(v)

CeilDiv(a, b) == (a + b - 1) \div b

\* C1: as long as the vector was written through set only, with indexes
\* below n and values below 2^k, get(i) returns the last value set at i
\* (0 when none was) for every i < n; a get that returned a value returns
\* the same value when repeated.
C1_RoundTrip ==
    /\ ~model.raw =>
          /\ \A i \in 0 .. (len(vec) - 1) : IntVecGet(vec, i) = Value(model.at[i + 1])
          /\ (last.op = "get" /\ last.index < len(vec)) =>
                (~last.fault /\ last.value = model.at[last.index + 1])
          /\ (last.op = "set" /\ last.index < len(vec)) =>
                (~last.fault /\ IntVecGet(vec, last.index) = Value(last.value))
    /\ (last.op = "get" /\ ~last.fault) =>
          IntVecGet(vec, last.index) = Value(last.value)

\* A get of a straddling element of a full unaligned vector returned the
\* value set there, between two neighbours holding other values.
C1_Witness ==
    /\ ~model.raw /\ last.op = "get" /\ ~last.fault
    /\ len(vec) = 3 /\ last.index = 1 /\ Straddles(vec, 1)
    /\ last.value = Pow2(element_bits(vec)) - 2
    /\ model.at[1] = 1 /\ model.at[3] = Pow2(element_bits(vec)) - 1

\* C2: a set(i, v) with i < n leaves get(j) as it was for every other
\* j < n, and leaves len() and element_bits() as they were.
C2_FrameOfSet ==
    [][(last'.op = "set" /\ ~last'.fault /\ last'.index < len(vec)) =>
          /\ \A j \in 0 .. (len(vec) - 1) :
                j # last'.index => IntVecGet(vec', j) = IntVecGet(vec, j)
          /\ len(vec') = len(vec)
          /\ element_bits(vec') = element_bits(vec)]_vars

\* A set of a straddling element whose two neighbours, one in each of its
\* storage words, hold nonzero values.
C2_Witness ==
    /\ last.op = "set" /\ ~last.fault /\ last.index = 1
    /\ len(vec) = 3 /\ Straddles(vec, 1) /\ last.value = 0
    /\ IntVecGet(vec, 0) = Value(Pow2(element_bits(vec)) - 1)
    /\ IntVecGet(vec, 2) = Value(Pow2(element_bits(vec)) - 1)

\* C3 as claimed: get(i) and set(i, v) with i >= n always panic.
C3_OutOfBoundsFaults ==
    (last.op \in {"get", "set"} /\ last.index >= len(vec)) => last.fault

\* C5: the vector holds ceil(n*k / W) storage words and len() = n from
\* construction on, through every set and set_bit; is_empty() holds iff
\* n = 0; right after construction every word is zero and every get(i),
\* i < n, returns 0.
C5_SizeAndInitialState ==
    /\ Len(vec.blocks) = CeilDiv(ctor.n_elements * ctor.element_bits, block_bits(vec))
    /\ len(vec) = ctor.n_elements
    /\ element_bits(vec) = ctor.element_bits
    /\ is_empty(vec) <=> (ctor.n_elements = 0)
    /\ last.op = "new" =>
          /\ \A j \in 1 .. Len(vec.blocks) : vec.blocks[j] = 0
          /\ \A i \in 0 .. (len(vec) - 1) : IntVecGet(vec, i) = Value(0)

\* A set_bit has set the first padding bit of an unaligned vector after sets
\* had filled its elements.
C5_Witness ==
    /\ last.op = "set_bit" /\ ~last.fault
    /\ len(vec) = 3 /\ ~is_aligned(vec)
    /\ Len(vec.blocks) = 3
    /\ IntVecGetBit(vec, 3 * element_bits(vec)) = Value(1)
    /\ \A i \in 0 .. 2 : IntVecGet(vec, i) = Value(Pow2(element_bits(vec)) - 1)

---------------------------------------------------------------------------
(* SpecNew: one call of IntVec::new(element_bits, n_elements) with any     *)
(* arguments a usize holds, on a platform whose usize is as wide as u64 or *)
(* half as wide, in a debug or a release build.                            *)

UsizeWidths == {U64Bits \div 2, U64Bits}

\* Element widths up to two past the block width, and the largest usize.
ElementBitsArgs(usize_bits) ==
    {k \in 0 .. (BlockBits + 2) : k < Pow2(usize_bits)} \cup {Pow2(usize_bits) - 1}

InitNew ==
    /\ debug \in BOOLEAN
    /\ lsb0 = TRUE
    /\ vec = NoVec
    /\ model = NoModel
    /\ last = NoLast
    /\ iter = NoIter
    /\ \E u \in UsizeWidths :
          \E k \in ElementBitsArgs(u), n \in 0 .. (Pow2(u) - 1) :
             ctor = [usize_bits |-> u, element_bits |-> k, n_elements |-> n,
                     done |-> FALSE, fault |-> FALSE]
    /\ bits = NoBits
    /\ rank = NoRank

New ==
    /\ ~ctor.done
    /\ LET r == IntVecNew(BlockBits, ctor.usize_bits, ctor.element_bits,
                          ctor.n_elements)
       IN  /\ ctor' = [ctor EXCEPT !.done = TRUE, !.fault = r.fault]
           /\ vec' = IF r.fault THEN vec ELSE r.vec
           /\ last' = [op |-> "new", index |-> 0, value |-> 0, fault |-> r.fault]
    /\ UNCHANGED <<debug, lsb0, model, iter, bits, rank>>

NextNew == New

SpecNew == InitNew /\ [][NextNew]_vars

\* C4 as claimed: new(k, n) panics whenever k > W, whenever n*k does not fit
\* in a u64 and whenever ceil(n*k / W) does not fit in a usize; a vector it
\* returns has exactly ceil(n*k / W) storage words.
C4_ConstructionErrors ==
    ctor.done =>
       LET k      == ctor.element_bits
           n      == ctor.n_elements
           n_bits == n * k
       IN  /\ (k > BlockBits) => ctor.fault
           /\ (n_bits >= Pow2(U64Bits)) => ctor.fault
           /\ (CeilDiv(n_bits, BlockBits) >= Pow2(ctor.usize_bits)) => ctor.fault
           /\ ~ctor.fault =>
                 (Len(vec.blocks) = CeilDiv(n_bits, BlockBits) /\ len(vec) = n)

---------------------------------------------------------------------------
(* Iter.  An iterator borrows the vector: while it lives the vector is not *)
(* written.  A cursor is [start, limit]; a call yields                     *)
(* [start, limit, item, fault], item being None or Some(value).            *)

\* IntVec::iter.
IntVecIter(v) == [start |-> 0, limit |-> len(v)]

\* Iterator::next.
IterNextOp(v, start, limit) ==
    IF start < limit
    THEN LET result == IntVecGet(v, start)
         IN  IF result.fault
             THEN [start |-> start, limit |-> limit, item |-> None, fault |-> TRUE]
             ELSE [start |-> start + 1, limit |-> limit,
                   item |-> Some(result.value), fault |-> FALSE]
    ELSE [start |-> start, limit |-> limit, item |-> None, fault |-> FALSE]

\* next_back reading the element at limit before stepping limit down.
IterNextBackOpMutant(v, start, limit) ==
    IF start < limit
    THEN LET result == IntVecGet(v, limit)
         IN  IF result.fault
             THEN [start |-> start, limit |-> limit - 1, item |-> None, fault |-> TRUE]
             ELSE [start |-> start, limit |-> limit - 1,
                   item |-> Some(result.value), fault |-> FALSE]
    ELSE [start |-> start, limit |-> limit, item |-> None, fault |-> FALSE]

\* DoubleEndedIterator::next_back.
IterNextBackOp(v, start, limit) ==
    IF start < limit
    THEN LET result == IntVecGet(v, limit - 1)
         IN  IF result.fault
             THEN [start |-> start, limit |-> limit - 1, item |-> None, fault |-> TRUE]
             ELSE [start |-> start, limit |-> limit - 1,
                   item |-> Some(result.value), fault |-> FALSE]
    ELSE [start |-> start, limit |-> limit, item |-> None, fault |-> FALSE]

\* Iterator::nth: start.checked_add(n).unwrap_or(limit), then next.
IterNthOp(v, start, limit, n) ==
    LET sum == start + n
    IN  IterNextOp(v, IF sum < Pow2(U64Bits) THEN sum ELSE limit, limit)

\* ExactSizeIterator::len: limit - start in usize.  An underflow panics
\* where overflow checks are compiled in and wraps where they are not.
IterLenOp(start, limit) ==
    IF limit >= start THEN [fault |-> FALSE, value |-> limit - start]
    ELSE IF debug THEN [fault |-> TRUE, value |-> 0]
    ELSE [fault |-> FALSE, value |-> (limit - start) + Pow2(U64Bits)]

---------------------------------------------------------------------------
(* SpecIter: a vector filled through set, then any number of iterators     *)
(* over it, each driven by next, next_back, nth and len in any order.      *)

RECURSIVE Fill(_, _, _)
\* v after set(i, at[i + 1]), set(i + 1, at[i + 2]), ...
Fill(v, at, i) ==
    IF i >= Len(at) THEN v ELSE Fill(IntVecSet(v, i, at[i + 1]).vec, at, i + 1)

\* Two fillings per vector: rising from 1, and falling from the largest value.
Fillings(k, n) ==
    {[i \in 1 .. n |-> i % Pow2(k)], [i \in 1 .. n |-> (Pow2(k) - i) % Pow2(k)]}

\* Skip distances for nth, the largest usize among them.
SkipArgs == (0 .. (MaxN + 1)) \cup {Pow2(U64Bits) - 1}

InitIter ==
    /\ debug \in BOOLEAN
    /\ lsb0 \in BOOLEAN
    /\ \E k \in 1 .. BlockBits, n \in 0 .. MaxN :
          /\ n * k <= MaxBits
          /\ \E at \in Fillings(k, n) :
                /\ vec = Fill(IntVecNew(BlockBits, U64Bits, k, n).vec, at, 0)
                /\ model = [raw |-> FALSE, at |-> at]
          /\ ctor = [usize_bits |-> U64Bits, element_bits |-> k, n_elements |-> n,
                     done |-> TRUE, fault |-> FALSE]
    /\ last = NoLast
    /\ iter = NoIter
    /\ bits = NoBits
    /\ rank = NoRank

\* What an iterator call leaves: the cursor, the call, its item, and the
\* ghost logs of what next (front) and next_back (back) have yielded, kept
\* until the first nth.
AfterIterCall(call, r, skipped, fromFront) ==
    [live |-> TRUE, start |-> r.start, limit |-> r.limit,
     front |-> IF skipped THEN <<>>
               ELSE IF fromFront /\ r.item.some
               THEN Append(iter.front, r.item.value) ELSE iter.front,
     back |-> IF skipped THEN <<>>
              ELSE IF ~fromFront /\ r.item.some
              THEN Append(iter.back, r.item.value) ELSE iter.back,
     skipped |-> skipped, last |-> call, item |-> r.item, fault |-> r.fault]

IterNew ==
    /\ iter' = [live |-> TRUE, start |-> IntVecIter(vec).start,
                limit |-> IntVecIter(vec).limit, front |-> <<>>, back |-> <<>>,
                skipped |-> FALSE, last |-> "iter", item |-> None, fault |-> FALSE]
    /\ UNCHANGED <<debug, lsb0, vec, model, last, ctor, bits, rank>>

IterNext ==
    /\ iter.live /\ ~iter.fault
    /\ iter' = AfterIterCall("next", IterNextOp(vec, iter.start, iter.limit),
                             iter.skipped, TRUE)
    /\ UNCHANGED <<debug, lsb0, vec, model, last, ctor, bits, rank>>

IterNextBack ==
    /\ iter.live /\ ~iter.fault
    /\ iter' = AfterIterCall("next_back",
                             IterNextBackOp(vec, iter.start, iter.limit),
                             iter.skipped, FALSE)
    /\ UNCHANGED <<debug, lsb0, vec, model, last, ctor, bits, rank>>

IterNth(n) ==
    /\ iter.live /\ ~iter.fault
    /\ iter' = AfterIterCall("nth", IterNthOp(vec, iter.start, iter.limit, n),
                             TRUE, TRUE)
    /\ UNCHANGED <<debug, lsb0, vec, model, last, ctor, bits, rank>>

IterLen ==
    /\ iter.live /\ ~iter.fault
    /\ LET r == IterLenOp(iter.start, iter.limit)
       IN  iter' = [iter EXCEPT !.last = "len",
                                !.item = IF r.fault THEN None ELSE Some(r.value),
                                !.fault = r.fault]
    /\ UNCHANGED <<debug, lsb0, vec, model, last, ctor, bits, rank>>

NextIter ==
    \/ IterNew
    \/ IterNext
    \/ IterNextBack
    \/ \E n \in SkipArgs : IterNth(n)
    \/ IterLen

SpecIter == InitIter /\ [][NextIter]_vars

\* C8: an iterator driven by next and next_back only has yielded get(0),
\* get(1), ... from the front and get(n-1), get(n-2), ... from the back, no
\* index twice (its cursors meet after n items in total); it answers None
\* only once all n items are out, and Some only while not; a fresh iter()
\* starts from the full range; the vector holds what it held before.
C8_IterationOrder ==
    (iter.live /\ ~iter.skipped /\ iter.last # "len") =>
       LET n == len(vec)
           f == Len(iter.front)
           b == Len(iter.back)
       IN  /\ ~iter.fault
           /\ iter.start = f /\ iter.limit = n - b /\ f + b <= n
           /\ \A j \in 1 .. f : Value(iter.front[j]) = IntVecGet(vec, j - 1)
           /\ \A j \in 1 .. b : Value(iter.back[j]) = IntVecGet(vec, n - j)
           /\ (iter.last \in {"next", "next_back"} /\ ~iter.item.some) => f + b = n
           /\ (iter.last = "next" /\ iter.item.some) => iter.item.value = iter.front[f]
           /\ (iter.last = "next_back" /\ iter.item.some) =>
                 iter.item.value = iter.back[b]
           /\ iter.last = "iter" => (iter.start = 0 /\ iter.limit = n)
           /\ \A i \in 0 .. (n - 1) : IntVecGet(vec, i) = Value(model.at[i + 1])

\* An iterator over three elements has yielded two from the front and one
\* from the back and then answered None.
C8_Witness ==
    /\ iter.live /\ ~iter.skipped /\ len(vec) = 3 /\ Straddles(vec, 1)
    /\ Len(iter.front) = 2 /\ Len(iter.back) = 1
    /\ iter.front[1] # iter.front[2] /\ iter.front[2] # iter.back[1]
    /\ iter.last = "next_back" /\ ~iter.item.some

\* C9 as claimed: the cursor of a live iterator satisfies start <= limit,
\* and len() returns limit - start without a fault.
C9_SaturatingSkip ==
    iter.live =>
       /\ iter.start <= iter.limit
       /\ iter.last = "len" =>
             (~iter.fault /\ iter.item = Some(iter.limit - iter.start))

---------------------------------------------------------------------------
(* RankSupport.  The bit source is [n, blocks]: bit_len() = n,             *)
(* block_len() = Len(blocks), get_block(i) = blocks[i + 1], its words      *)
(* BlockBits wide.  The two tables are IntVec<u64>.                        *)

RECURSIVE BitLength(_)
\* nbits() - leading_zeros(x): the number of bits x takes.
BitLength(x) == IF x = 0 THEN 0 ELSE 1 + BitLength(x \div 2)

ceil_log2(block) == IF block <= 1 THEN 0 ELSE BitLength(block - 1)

\* IntVecBuilder::new(element_bits).capacity(_).build(): an empty vector.
IntVecBuild(k) ==
    [block_bits |-> U64Bits, blocks |-> <<>>, n_elements |-> 0, element_bits |-> k]

\* IntVec::push: one more element, written through set.
IntVecPush(v, element_value) ==
    LET size  == compute_block_size(block_bits(v), U64Bits, element_bits(v),
                                    v.n_elements + 1)
        grown == [v EXCEPT !.n_elements = @ + 1,
                           !.blocks = [j \in 1 .. size.size |->
                                          IF j <= Len(v.blocks) THEN v.blocks[j] ELSE 0]]
    IN  IF size.panic \/ ~size.some THEN [fault |-> TRUE, vec |-> v]
        ELSE IntVecSet(grown, v.n_elements, element_value)

\* small_per_large = (lg2_n + small_block_size - 1) / small_block_size.
SmallPerLarge(n) ==
    LET lg_n == ceil_log2(n)
    IN  ((lg_n * lg_n) + BlockBits - 1) \div BlockBits

\* One pass of the for loop of RankSupport::new, over block i.
RankScanStep(st, src, i) ==
    LET atLarge == st.small_block_index = 0
        pushL   == IF atLarge THEN IntVecPush(st.large_block_ranks, st.current_rank)
                   ELSE [fault |-> FALSE, vec |-> st.large_block_ranks]
        last_large_rank == IF atLarge THEN st.current_rank ELSE st.last_large_rank
        excess_rank     == st.current_rank - last_large_rank
        pushS   == IntVecPush(st.small_block_ranks, excess_rank)
        next_index == st.small_block_index + 1
    IN  IF pushL.fault \/ pushS.fault THEN [st EXCEPT !.fault = TRUE]
        ELSE [st EXCEPT
                !.large_block_ranks = pushL.vec,
                !.small_block_ranks = pushS.vec,
                !.last_large_rank = last_large_rank,
                !.current_rank = @ + count_ones(src.blocks[i + 1]),
                !.small_block_index =
                    IF next_index = st.small_per_large THEN 0 ELSE next_index]

RECURSIVE RankScan(_, _, _)
\* The for loop from block i on.
RankScan(st, src, i) ==
    IF st.fault \/ i >= Len(src.blocks) THEN st
    ELSE RankScan(RankScanStep(st, src, i), src, i + 1)

\* RankSupport::new.
RankSupportNew(src) ==
    LET n                == src.n
        lg_n             == ceil_log2(n)
        small_per_large  == SmallPerLarge(n)
        large_block_size == BlockBits * small_per_large
        Failed == [NoRank EXCEPT !.pc = "fault",
                                 !.large_block_size = large_block_size,
                                 !.small_per_large = small_per_large]
    IN  IF large_block_size = 0 THEN Failed         \* n / large_block_size
        ELSE
        LET st0 == [large_block_ranks |-> IntVecBuild(lg_n),
                    small_block_ranks |-> IntVecBuild(ceil_log2(large_block_size)),
                    current_rank |-> 0, last_large_rank |-> 0,
                    small_block_index |-> 0, small_per_large |-> small_per_large,
                    fault |-> FALSE]
            st  == RankScan(st0, src, 0)
            pushL == IntVecPush(st.large_block_ranks, st.current_rank)
            pushS == IntVecPush(st.small_block_ranks,
                                st.current_rank - st.last_large_rank)
        IN  IF st.fault \/ pushL.fault \/ pushS.fault THEN Failed
            ELSE [NoRank EXCEPT !.pc = "built",
                                !.large_block_size = large_block_size,
                                !.small_per_large = small_per_large,
                                !.large_block_ranks = pushL.vec,
                                !.small_block_ranks = pushS.vec,
                                !.current_rank = st.current_rank]

\* Rank::rank: bits_rank shifts bit_offset, counted from the most
\* significant bit of the block, down to bit 0 and counts what is left.
RankSupportRank(r, src, position) ==
    LET small_block_size == BlockBits
        large_block == position \div r.large_block_size
        small_block == position \div small_block_size
        bit_offset  == position % small_block_size
        large_rank  == IntVecGet(r.large_block_ranks, large_block)
        small_rank  == IntVecGet(r.small_block_ranks, small_block)
    IN  IF large_rank.fault \/ small_rank.fault
           \/ ~(small_block < Len(src.blocks))
        THEN Fault
        ELSE LET bits_rank ==
                    count_ones(src.blocks[small_block + 1]
                               \div Pow2(small_block_size - bit_offset - 1))
             IN  Value(large_rank.value + small_rank.value + bits_rank)

---------------------------------------------------------------------------
(* SpecRank: RankSupport::new over a bit source, then rank queries at      *)
(* positions below its bit length.                                         *)

\* Words a source is made of: no bit, the lowest, the highest, and all bits set.
Patterns == {0, 1, Pow2(BlockBits - 1), Pow2(BlockBits) - 1}

\* The word with the bits at flat positions n and above cleared; position q
\* is bit (q mod W), counted from the most significant, of word q div W.
ClearPast(w, j, n) ==
    LET keep == Min(BlockBits, n - (j * BlockBits))
    IN  IF keep <= 0 THEN 0
        ELSE (w \div Pow2(BlockBits - keep)) * Pow2(BlockBits - keep)

\* Bit lengths of a source of w words: every bit of the last word counts,
\* all but one, or only one.
BitLengths(w) ==
    IF w = 0 THEN {0}
    ELSE {w * BlockBits, (w * BlockBits) - 1, ((w - 1) * BlockBits) + 1}

InitRank ==
    /\ debug \in BOOLEAN
    /\ lsb0 \in BOOLEAN
    /\ vec = NoVec
    /\ model = NoModel
    /\ last = NoLast
    /\ iter = NoIter
    /\ ctor = NoCtor
    /\ \E w \in 0 .. MaxWords, p \in Patterns, q \in Patterns :
          \E n \in BitLengths(w) :
             bits = [n |-> n,
                     blocks |-> [j \in 1 .. w |->
                                   ClearPast(IF j % 2 = 1 THEN p ELSE q, j - 1, n)]]
    /\ rank = NoRank

RankNew ==
    /\ rank.pc = "none"
    /\ rank' = RankSupportNew(bits)
    /\ UNCHANGED <<debug, lsb0, vec, model, last, iter, ctor, bits>>

Rank(position) ==
    /\ rank.pc = "built"
    /\ LET r == RankSupportRank(rank, bits, position)
       IN  rank' = [rank EXCEPT !.queried = TRUE, !.position = position,
                                !.result = r.value, !.fault = r.fault]
    /\ UNCHANGED <<debug, lsb0, vec, model, last, iter, ctor, bits>>

NextRank ==
    \/ RankNew
    \/ \E position \in 0 .. (bits.n - 1) : Rank(position)

SpecRank == InitRank /\ [][NextRank]_vars

---------------------------------------------------------------------------
(* Claims about RankSupport, checked under SpecRank.                       *)

\* The bit at flat position q: bit (q mod W), counted from the most
\* significant bit, of word q div W.
BitAt(src, q) ==
    (src.blocks[(q \div BlockBits) + 1] \div Pow2(BlockBits - 1 - (q % BlockBits))) % 2

RECURSIVE PrefixOnes(_, _)
\* The number of set bits at flat positions 0 .. p.
PrefixOnes(src, p) ==
    IF p < 0 THEN 0 ELSE BitAt(src, p) + PrefixOnes(src, p - 1)

\* C6 as claimed: over every bit source, for every position p < n,
\* RankSupport::new returns an index and its rank(p) returns the number of
\* set bits of the source at flat positions 0 .. p, position q being the
\* (q mod W)-th bit from the most significant of word q div W.
C6_RankCorrect ==
    rank.pc # "none" =>
       /\ \A p \in 0 .. (bits.n - 1) :
             /\ rank.pc = "built"
             /\ RankSupportRank(rank, bits, p) = Value(PrefixOnes(bits, p))
       /\ rank.queried =>
             (~rank.fault /\ rank.result = PrefixOnes(bits, rank.position))

\* C7 as claimed: over a source of 0 or 1 bits lg_n is 0 and new returns
\* an index without a fault.
C7_SmallSourceBuilds ==
    (rank.pc # "none" /\ bits.n <= 1) =>
       (ceil_log2(bits.n) = 0 /\ rank.pc = "built")

\* C10 as claimed: after new, with small_per_large >= 1, the large table
\* holds ceil(words / small_per_large) + 1 entries and the small table
\* words + 1, the last large entry is the population count of the source,
\* and the entries rank(p) reads for p < n exist.
C10_TableShape ==
    (rank.pc = "built" /\ rank.small_per_large >= 1) =>
       LET words == Len(bits.blocks)
           large == rank.large_block_ranks
           small == rank.small_block_ranks
       IN  /\ len(large) = CeilDiv(words, rank.small_per_large) + 1
           /\ len(small) = words + 1
           /\ IntVecGet(large, len(large) - 1) = Value(PrefixOnes(bits, bits.n - 1))
           /\ \A p \in 0 .. (bits.n - 1) :
                 /\ p \div rank.large_block_size < len(large)
                 /\ p \div BlockBits < len(small)

RECURSIVE RankPushed(_, _, _, _, _, _)
\* The values RankSupport::new pushes from block i on, in order and per
\* table: those of the for loop, then the two pushes after it.
RankPushed(src, small_per_large, i, current_rank, last_large_rank, small_block_index) ==
    IF i >= Len(src.blocks)
    THEN [large |-> <<current_rank>>,
          small |-> <<current_rank - last_large_rank>>]
    ELSE LET atLarge    == small_block_index = 0
             large_rank == IF atLarge THEN current_rank ELSE last_large_rank
             next_index == small_block_index + 1
             rest == RankPushed(src, small_per_large, i + 1,
                                current_rank + count_ones(src.blocks[i + 1]),
                                large_rank,
                                IF next_index = small_per_large THEN 0
                                ELSE next_index)
         IN  [large |-> (IF atLarge THEN <<current_rank>> ELSE <<>>) \o rest.large,
              small |-> <<current_rank - large_rank>> \o rest.small]

\* C11 as claimed: wherever new gets to its tables (large_block_size is
\* not 0), every value it pushes, the two after the loop included, is
\* below 2^width of its table: below 2^ceil_log2(n) for large_block_ranks
\* and below 2^ceil_log2(large_block_size) for small_block_ranks.
C11_ValuesFitWidths ==
    (rank.pc # "none" /\ rank.large_block_size # 0) =>
       LET pushed == RankPushed(bits, rank.small_per_large, 0, 0, 0, 0)
       IN  /\ \A j \in 1 .. Len(pushed.large) :
                 pushed.large[j] < Pow2(ceil_log2(bits.n))
           /\ \A j \in 1 .. Len(pushed.small) :
                 pushed.small[j] < Pow2(ceil_log2(rank.large_block_size))

===========================================================================
